---- MODULE Spec2Model ----
(***************************************************************************)
(* Realtime Session Manager of openai-realtime-agents, socket variant      *)
(* (src/src/app/hooks/useRealtimeSession.ts).  The hook owns a mutable     *)
(* reference wsRef to the current WebSocket, a React status, and talks to  *)
(* the transcript context.  Every callback of the hook (connect, the       *)
(* continuation of connect after the credential await, disconnect,         *)
(* sendUserText, the socket's onopen/onmessage/onerror/onclose and the     *)
(* greeting timer) runs to completion on the single JavaScript event loop, *)
(* so each is one atomic action.                                           *)
(***************************************************************************)
EXTENDS Integers, Sequences, FiniteSets, TLC

\* ---- bounds of the model ------------------------------------------------
MaxTransports == 2      \* WebSocket objects ever constructed
MaxAttempts == 2        \* connect() calls that pass the guard
MaxStatusCalls == 4     \* updateStatus invocations
MaxSent == 5            \* commands sent on one socket
MaxLifecycleSent == 3   \* the same, in the lifecycle specification
MaxTranscript == 1      \* transcript items
MaxClock == 1           \* values of Date.now()
MaxText == 2            \* chunks in the text of one transcript item
MaxRounds == 3          \* submissions of one run of the tool-call loop
MaxCalls == 1           \* function-call items in one response
MaxSwitches == 2        \* switches of the active agent that went through
MaxPeerSent == 5        \* frames sent on the data channel

Transports == 1..MaxTransports
Attempts == 1..MaxAttempts
Texts == {"", "hello"}

NoId == <<>>

VARIABLES
    status,         \* useState<SessionStatus>
    wsRef,          \* useRef<WebSocket | null>: 0 is null
    readyState,     \* WebSocket.readyState of every socket; "NONE" = not constructed
    sent,           \* frames handed to ws.send() of every socket, in order
    acked,          \* the remote has sent session.updated on the socket
    greetingTimer,  \* the setTimeout of onopen: "none", "pending", "fired"
    attempt,        \* connect() calls past the guard: pc, provider calls, socket
    statusCalls,    \* number of updateStatus invocations (callback + status_change log)
    transcript,     \* items of the transcript context
    sendLog,        \* outcome of the latest sendUserText call: "none", "not_ready" (the console.warn), "sent"
    now,            \* Date.now()
    lastFrame,      \* what onmessage did with the latest inbound frame
    muteLog,        \* the value the latest mute() call logged, "none" before any call
    loop,           \* one run of getNextResponseFromSupervisor / handleToolCalls
    app,            \* App.tsx and the hook it is written against: agents, guardrails
    peer,           \* the data channel of the peer-connection variant of the hook
    lookup          \* one call of fetchOrderStatus

vars == <<status, wsRef, readyState, sent, acked, greetingTimer, attempt,
          statusCalls, transcript, sendLog, now, lastFrame, muteLog, loop, app, peer, lookup>>

\* ---- helpers --------------------------------------------------------------
Cmd(type, id, text) == [type |-> type, id |-> id, text |-> text]

SessionConfig == Cmd("session.update", NoId, "")
ResponseCreate == Cmd("response.create", NoId, "")
ItemCreate(id, text) == Cmd("conversation.item.create", id, text)

Created == {t \in Transports : readyState[t] # "NONE"}
Started == {a \in Attempts : attempt[a].pc # "none"}

\* WebSocket.close(): a socket that is connecting or open starts closing,
\* a closing or closed one is left alone.
WsCloseCall(rs, t) ==
    IF rs[t] \in {"CONNECTING", "OPEN"} THEN [rs EXCEPT ![t] = "CLOSING"] ELSE rs

\* ws.send(): the frame goes out only on an open socket; on a closing or
\* closed socket the browser discards it without throwing.
WsSend(s, t, frames) ==
    IF readyState[t] = "OPEN" THEN [s EXCEPT ![t] = @ \o frames] ELSE s

\* TranscriptContext.addTranscriptMessage: append unless the id exists.
AddTranscriptMessage(tr, id, role, text) ==
    IF \E i \in 1..Len(tr) : tr[i].id = id
    THEN tr
    ELSE Append(tr, [id |-> id, role |-> role, text |-> text, status |-> "IN_PROGRESS"])

\* A JavaScript string as the sequence of chunks it was built from; string
\* concatenation is \o and "" is the empty sequence.
Str(x) == IF x = "" THEN <<>> ELSE <<x>>

HasItem(tr, id) == \E i \in 1..Len(tr) : tr[i].id = id

ItemOf(tr, id) == tr[CHOOSE i \in 1..Len(tr) : tr[i].id = id]

\* An updateTranscriptMessage that also rewrites items that are DONE.
UpdateTranscriptMessageAnyStatus(tr, id, text, append) ==
    LET base == IF \E i \in 1..Len(tr) : tr[i].id = id
                THEN tr
                ELSE Append(tr, [id |-> id, role |-> "assistant", text |-> <<>>,
                                 status |-> "IN_PROGRESS"])
    IN [i \in 1..Len(base) |->
          IF base[i].id = id
          THEN [base[i] EXCEPT !.text = IF append THEN @ \o text ELSE text]
          ELSE base[i]]

\* TranscriptContext.updateTranscriptMessage: an item that does not exist yet
\* is created first; an item that is DONE is never mutated; otherwise the text
\* is appended to or replaced.
UpdateTranscriptMessage(tr, id, text, append) ==
    LET base == IF HasItem(tr, id)
                THEN tr
                ELSE Append(tr, [id |-> id, role |-> "assistant", text |-> <<>>,
                                 status |-> "IN_PROGRESS"])
    IN [i \in 1..Len(base) |->
          IF base[i].id = id /\ base[i].status # "DONE"
          THEN [base[i] EXCEPT !.text = IF append THEN @ \o text ELSE text]
          ELSE base[i]]

\* TranscriptContext.updateTranscriptItem with {status: ...}.
UpdateTranscriptItem(tr, id, st) ==
    [i \in 1..Len(tr) |-> IF tr[i].id = id THEN [tr[i] EXCEPT !.status = st] ELSE tr[i]]

\* ---- the agent registry ---------------------------------------------------------
\* The agent sets App.tsx selects from (allAgentSets), each an ordered list.
AgentSetKeys == {"simpleHandoff", "chatSupervisor"}

AgentSet(key) ==
    IF key = "simpleHandoff" THEN <<"greeter", "haiku">> ELSE <<"chatAgent">>

AgentNames == {"greeter", "haiku", "chatAgent"}

\* The agents an agent can hand off to.
HandoffTargets(agent) == IF agent = "greeter" THEN {"haiku"} ELSE {}

\* The agents whose definition has a guardrails list.
WithGuardrailList == {"greeter", "chatAgent"}

\* The company name the guardrail is created for.
CompanyName(key) ==
    IF key = "chatSupervisor" THEN "chatSupervisorCompany" ELSE "Default Company"

\* createModerationGuardrail(companyName): the name does not depend on the company.
Guardrail(company) == [name |-> "moderation_guardrail", company |-> company]

\* App and the hook before anything is selected or connected.
AppInit ==
    [status |-> "DISCONNECTED", session |-> FALSE, currentAgentName |-> "",
     selectedAgentSetKey |-> "simpleHandoff", selectedAgentName |-> "",
     guardrails |-> [a \in AgentNames |-> <<>>],
     pc |-> "idle", initialAgent |-> "",
     switchCrumbs |-> 0, handoffCalls |-> 0,
     sdkSwitchCalls |-> 0, switchLog |-> "none",
     isPTTUserSpeaking |-> FALSE]

\* What one run of getNextResponseFromSupervisor has returned: nothing yet,
\* { nextResponse: text }, { error: 'Something went wrong.' }, or nothing
\* because an exception left the function.
Out(kind, text) == [kind |-> kind, text |-> text]
NoOut == Out("none", <<>>)

\* The tool-call loop before getNextResponseFromSupervisor is called: no
\* submission made, no request body, no response received.
\* The data channel before it opens, and fetchOrderStatus before it is called.
PeerIdle == [status |-> "CONNECTING", open |-> FALSE, sent |-> <<>>, timer |-> "none",
             last |-> "none"]
LookupIdle == [pc |-> "idle", customerName |-> <<>>, orderNumber |-> <<>>,
               found |-> FALSE, order |-> 0, error |-> "none"]

LoopIdle ==
    [pc |-> "idle", sink |-> FALSE, subs |-> 0, input |-> <<>>,
     responses |-> <<>>, out |-> NoOut, crumbs |-> 0, log |-> <<>>]

Init ==
    /\ status = "DISCONNECTED"
    /\ wsRef = 0
    /\ readyState = [t \in Transports |-> "NONE"]
    /\ sent = [t \in Transports |-> <<>>]
    /\ acked = [t \in Transports |-> FALSE]
    /\ greetingTimer = [t \in Transports |-> "none"]
    /\ attempt = [a \in Attempts |-> [pc |-> "none", keyCalls |-> 0, ws |-> 0]]
    /\ statusCalls = 0
    /\ transcript = <<>>
    /\ sendLog = "none"
    /\ now = 0
    /\ lastFrame = "none"
    /\ muteLog = "none"
    /\ loop = LoopIdle
    /\ app = AppInit
    /\ peer = PeerIdle
    /\ lookup = LookupIdle

\* ---- connect() -------------------------------------------------------------
\* The guard of connect(): the call returns at once when it holds.
ConnectGuard == wsRef # 0

\* connect() up to the await: guard, updateStatus('CONNECTING'), and the
\* synchronous call of getEphemeralKey.
Connect ==
    IF ConnectGuard
    THEN UNCHANGED vars
    ELSE /\ Cardinality(Started) < MaxAttempts
         /\ statusCalls < MaxStatusCalls
         /\ LET a == Cardinality(Started) + 1 IN
            attempt' = [attempt EXCEPT ![a] = [pc |-> "awaitKey", keyCalls |-> 1, ws |-> 0]]
         /\ status' = "CONNECTING"
         /\ statusCalls' = statusCalls + 1
         /\ UNCHANGED <<wsRef, readyState, sent, acked, greetingTimer,
                        transcript, sendLog, now,
                   lastFrame, muteLog, loop, app, peer, lookup>>

\* The provider resolved with a key: new WebSocket, wsRef.current = ws, and
\* the four handlers are installed.
KeyResolved(a) ==
    /\ attempt[a].pc = "awaitKey"
    /\ Cardinality(Created) < MaxTransports
    /\ LET t == Cardinality(Created) + 1 IN
         /\ readyState' = [readyState EXCEPT ![t] = "CONNECTING"]
         /\ wsRef' = t
         /\ attempt' = [attempt EXCEPT ![a].pc = "created", ![a].ws = t]
    /\ UNCHANGED <<status, sent, acked, greetingTimer, statusCalls,
                   transcript, sendLog, now,
                   lastFrame, muteLog, loop, app, peer, lookup>>

\* A catch block that leaves the status as it was while connecting.
CatchStatusKeepsConnecting == "CONNECTING"

\* The status the catch block of connect() sets.
CatchStatus == "DISCONNECTED"

\* The provider resolved with null/"" or rejected: `throw` or the rejection
\* lands in the catch block, which closes whatever wsRef holds.
KeyFailed(a) ==
    /\ attempt[a].pc = "awaitKey"
    /\ statusCalls < MaxStatusCalls
    /\ attempt' = [attempt EXCEPT ![a].pc = "failed"]
    /\ status' = CatchStatus
    /\ statusCalls' = statusCalls + 1
    /\ IF wsRef # 0
       THEN /\ readyState' = WsCloseCall(readyState, wsRef)
            /\ wsRef' = 0
       ELSE UNCHANGED <<readyState, wsRef>>
    /\ UNCHANGED <<sent, acked, greetingTimer, transcript, sendLog, now,
                   lastFrame, muteLog, loop, app, peer, lookup>>

\* ---- socket callbacks ---------------------------------------------------------
\* An onopen that reports CONNECTED without pushing the configuration.
OnOpenSendsNothing == <<>>

\* A generation trigger ahead of the configuration.
OnOpenSendsResponseFirst == <<ResponseCreate, SessionConfig>>

\* Frames ws.onopen sends right after updateStatus('CONNECTED').
OnOpenSends == <<SessionConfig>>

\* ws.onopen: the socket is open; CONNECTED, session.update, greeting timer.
WsOnOpen(t) ==
    /\ readyState[t] = "CONNECTING"
    /\ statusCalls < MaxStatusCalls
    /\ readyState' = [readyState EXCEPT ![t] = "OPEN"]
    /\ status' = "CONNECTED"
    /\ statusCalls' = statusCalls + 1
    /\ sent' = [sent EXCEPT ![t] = @ \o OnOpenSends]
    /\ greetingTimer' = [greetingTimer EXCEPT ![t] = "pending"]
    /\ UNCHANGED <<wsRef, acked, attempt, transcript, sendLog, now,
                   lastFrame, muteLog, loop, app, peer, lookup>>

\* The setTimeout callback of onopen: it sends on the socket it captured,
\* whatever wsRef and status are by then.
GreetingFire(t) ==
    /\ greetingTimer[t] = "pending"
    /\ greetingTimer' = [greetingTimer EXCEPT ![t] = "fired"]
    /\ sent' = WsSend(sent, t, <<ItemCreate(<<"greeting", now>>, "hi"), ResponseCreate>>)
    /\ UNCHANGED <<status, wsRef, readyState, acked, attempt, statusCalls,
                   transcript, sendLog, now,
                   lastFrame, muteLog, loop, app, peer, lookup>>

\* An inbound frame after JSON.parse: type, item id (item.id or item_id), the
\* item's role, and the delta or transcript string.
Msg(type, id, role, text) == [type |-> type, id |-> id, role |-> role, text |-> text]

\* A frame JSON.parse throws on.
Malformed == Msg("", NoId, "", "")

AckMsg == Msg("session.updated", NoId, "", "")

ServerIds == {<<"item", 1>>}
Deltas == {"", "a"}
Finals == {"", "b"}

\* Inbound frames the model delivers.
InboundMsgs ==
    {Malformed, AckMsg, Msg("rate_limits.updated", NoId, "", ""),
     Msg("error", NoId, "", ""), Msg("response.audio.delta", NoId, "", "a")}
    \cup {Msg("conversation.item.created", id, r, "") :
            id \in ServerIds, r \in {"assistant", "user"}}
    \cup {Msg("response.audio_transcript.delta", id, "", d) :
            id \in ServerIds \cup {NoId}, d \in Deltas}
    \cup {Msg("response.audio_transcript.done", id, "", f) :
            id \in ServerIds \cup {NoId}, f \in Finals}

\* The frames of the session handshake: the only ones the lifecycle
\* specification delivers.
LifecycleMsgs == {AckMsg}

\* The case labels of the switch in ws.onmessage.
HandledTypes ==
    {"conversation.item.created", "response.audio_transcript.delta",
     "response.audio_transcript.done", "response.audio.delta", "error"}

\* A created branch that resets the text of the item to the placeholder.
OnItemCreatedResets(tr, m) ==
    IF m.role = "assistant"
    THEN [i \in 1..Len(AddTranscriptMessage(tr, m.id, "assistant", <<>>)) |->
            LET it == AddTranscriptMessage(tr, m.id, "assistant", <<>>)[i] IN
            IF it.id = m.id THEN [it EXCEPT !.text = <<"[Generating response...]">>] ELSE it]
    ELSE tr

\* case 'conversation.item.created'
OnItemCreated(tr, m) ==
    IF m.role = "assistant"
    THEN AddTranscriptMessage(tr, m.id, "assistant", <<"[Generating response...]">>)
    ELSE tr

\* A delta branch that never touches the transcript.
OnTranscriptDeltaIgnored(tr, m) == tr

\* case 'response.audio_transcript.delta'
OnTranscriptDelta(tr, m) ==
    IF m.id # NoId /\ m.text # ""
    THEN UpdateTranscriptMessage(tr, m.id, Str(m.text), TRUE)
    ELSE tr

\* message.transcript || '[Audio response completed]'
FinalText(f) == IF f # "" THEN Str(f) ELSE <<"[Audio response completed]">>

\* A done branch that marks the item DONE and keeps the accumulated text.
OnTranscriptDoneKeepsText(tr, m) ==
    IF m.id # NoId THEN UpdateTranscriptItem(tr, m.id, "DONE") ELSE tr

\* case 'response.audio_transcript.done'
OnTranscriptDone(tr, m) ==
    IF m.id # NoId
    THEN UpdateTranscriptItem(
             UpdateTranscriptMessage(tr, m.id, FinalText(m.text), FALSE), m.id, "DONE")
    ELSE tr

\* A handler without the catch and the default branch: a frame that does not
\* parse or has an unknown type is treated as an assistant item notification.
OnFrameNoDefault(tr, m) ==
    CASE m # Malformed /\ m.type = "response.audio_transcript.delta" -> OnTranscriptDelta(tr, m)
      [] m # Malformed /\ m.type = "response.audio_transcript.done" -> OnTranscriptDone(tr, m)
      [] m # Malformed /\ m.type \in {"response.audio.delta", "error"} -> tr
      [] m # Malformed /\ m.type = "conversation.item.created" -> OnItemCreated(tr, m)
      [] OTHER -> AddTranscriptMessage(tr, m.id, "assistant", <<"[Generating response...]">>)

\* The try block of ws.onmessage as a function on the transcript: a frame
\* that does not parse lands in the catch, the switch dispatches on the type.
OnFrame(tr, m) ==
    IF m = Malformed THEN tr
    ELSE CASE m.type = "conversation.item.created" -> OnItemCreated(tr, m)
           [] m.type = "response.audio_transcript.delta" -> OnTranscriptDelta(tr, m)
           [] m.type = "response.audio_transcript.done" -> OnTranscriptDone(tr, m)
           [] OTHER -> tr

\* What the handler logs about the frame: the catch's console.error, the
\* default branch's "Unhandled message type", or a case of the switch.
FrameOutcome(m) ==
    IF m = Malformed THEN "malformed"
    ELSE IF m.type \in HandledTypes THEN "handled" ELSE "unhandled"

\* ws.onmessage.  The remote acknowledges a configuration once, after it got it.
WsOnMessage(t, m) ==
    /\ readyState[t] = "OPEN"
    /\ m = AckMsg => /\ \E i \in 1..Len(sent[t]) : sent[t][i] = SessionConfig
                     /\ ~acked[t]
    /\ LET tr == OnFrame(transcript, m) IN
         /\ Len(tr) <= MaxTranscript
         /\ \A i \in 1..Len(tr) : Len(tr[i].text) <= MaxText
         /\ transcript' = tr
    /\ acked' = IF m = AckMsg THEN [acked EXCEPT ![t] = TRUE] ELSE acked
    /\ lastFrame' = FrameOutcome(m)
    /\ UNCHANGED <<status, wsRef, readyState, sent, greetingTimer, attempt,
                   statusCalls, sendLog, now, muteLog, loop, app, peer, lookup>>

\* updateStatus invocations of ws.onerror and of ws.onclose.
OnErrorCalls == 1
OnCloseCalls == 1

\* The connection fails (handshake refused, network loss, or close() on a
\* socket that never opened): the browser sets CLOSED and fires error and then
\* close in one task; both handlers set DISCONNECTED and clear wsRef.
WsFail(t) ==
    /\ readyState[t] \in {"CONNECTING", "OPEN", "CLOSING"}
    /\ statusCalls + OnErrorCalls + OnCloseCalls <= MaxStatusCalls
    /\ readyState' = [readyState EXCEPT ![t] = "CLOSED"]
    /\ status' = "DISCONNECTED"
    /\ wsRef' = 0
    /\ statusCalls' = statusCalls + OnErrorCalls + OnCloseCalls
    /\ UNCHANGED <<sent, acked, greetingTimer, attempt, transcript, sendLog, now,
                   lastFrame, muteLog, loop, app, peer, lookup>>

\* The closing handshake of an established connection completes (started by
\* the remote or by close()): CLOSED and the close event alone.
WsOnClose(t) ==
    /\ readyState[t] \in {"OPEN", "CLOSING"}
    /\ greetingTimer[t] # "none"
    /\ statusCalls + OnCloseCalls <= MaxStatusCalls
    /\ readyState' = [readyState EXCEPT ![t] = "CLOSED"]
    /\ status' = "DISCONNECTED"
    /\ wsRef' = 0
    /\ statusCalls' = statusCalls + OnCloseCalls
    /\ UNCHANGED <<sent, acked, greetingTimer, attempt, transcript, sendLog, now,
                   lastFrame, muteLog, loop, app, peer, lookup>>

\* ---- disconnect() ----------------------------------------------------------
Disconnect ==
    /\ statusCalls < MaxStatusCalls
    /\ IF wsRef # 0
       THEN /\ readyState' = WsCloseCall(readyState, wsRef)
            /\ wsRef' = 0
       ELSE UNCHANGED <<readyState, wsRef>>
    /\ status' = "DISCONNECTED"
    /\ statusCalls' = statusCalls + 1
    /\ UNCHANGED <<sent, acked, greetingTimer, attempt, transcript, sendLog, now,
                   lastFrame, muteLog, loop, app, peer, lookup>>

\* ---- sendUserText() --------------------------------------------------------
\* A readiness test that forgets the readyState comparison.
SendReadyRefOnly == wsRef # 0

\* The negation of the early-return test of sendUserText / sendEvent.
SendReady == wsRef # 0 /\ readyState[wsRef] = "OPEN"

\* The two sends of sendUserText in the opposite order.
UserTextSendsReversed(id, text) == <<ResponseCreate, ItemCreate(id, text)>>

\* The frames sendUserText hands to wsRef.current.send, in order.
UserTextSends(id, text) == <<ItemCreate(id, text), ResponseCreate>>

SendUserText(text) ==
    IF ~SendReady
    THEN /\ sendLog' = "not_ready"
         /\ UNCHANGED <<status, wsRef, readyState, sent, acked, greetingTimer, attempt,
                        statusCalls, transcript, now,
                   lastFrame, muteLog, loop, app, peer, lookup>>
    ELSE LET itemId == <<"user", now>>
             tr == AddTranscriptMessage(transcript, itemId, "user", Str(text)) IN
         /\ Len(tr) <= MaxTranscript
         /\ Len(sent[wsRef]) + 2 <= MaxSent
         /\ transcript' = tr
         /\ sent' = WsSend(sent, wsRef, UserTextSends(itemId, text))
         /\ sendLog' = "sent"
         /\ UNCHANGED <<status, wsRef, readyState, acked, greetingTimer, attempt,
                        statusCalls, now,
                   lastFrame, muteLog, loop, app, peer, lookup>>

\* ---- interrupt() and mute() ------------------------------------------------------
InterruptEvent == Cmd("response.cancel", NoId, "")

\* Frames interrupt() sends once the socket is ready.
InterruptSends == <<InterruptEvent>>

\* What interrupt() sends in the current state: its test of wsRef and
\* readyState decides, not the status.
InterruptFrames == IF SendReady THEN InterruptSends ELSE <<>>

Interrupt ==
    IF InterruptFrames # <<>>
    THEN /\ Len(sent[wsRef]) + Len(InterruptFrames) <= MaxSent
         /\ sent' = WsSend(sent, wsRef, InterruptFrames)
         /\ UNCHANGED <<status, wsRef, readyState, acked, greetingTimer, attempt,
                        statusCalls, transcript, sendLog, now, lastFrame, muteLog, loop, app, peer, lookup>>
    ELSE UNCHANGED vars

\* ---- the text box of the UI ------------------------------------------------------
\* What the user typed, as a sequence of chunks: " " is white space, a word is
\* one of Texts.
UiTexts == {<<>>, <<" ", " ">>, <<"hello">>, <<" ", "hello", " ">>}

RECURSIVE TrimStart(_)
TrimStart(u) == IF u # <<>> /\ Head(u) = " " THEN TrimStart(Tail(u)) ELSE u

RECURSIVE TrimEnd(_)
TrimEnd(u) ==
    IF u # <<>> /\ u[Len(u)] = " " THEN TrimEnd(SubSeq(u, 1, Len(u) - 1)) ELSE u

\* String.prototype.trim
Trim(u) == TrimEnd(TrimStart(u))

\* The string of a chunk sequence that holds at most one word.
TextOf(u) == IF u = <<>> THEN "" ELSE u[1]

\* What a submit of u hands to the socket in the current state: nothing for
\* blank text, else the frames of interrupt() and then of sendUserText(trimmed).
UiSubmitFrames(u) ==
    IF Trim(u) = <<>> THEN <<>>
    ELSE InterruptFrames
            \o (IF SendReady THEN UserTextSends(<<"user", now>>, TextOf(Trim(u))) ELSE <<>>)

\* handleSendTextMessage: interrupt() and sendUserText(userText.trim()) in
\* one task; sendUserText adds the user's message to the transcript when it sends.
HandleSendTextMessage(u) ==
    IF Trim(u) = <<>> THEN UNCHANGED vars
    ELSE IF ~SendReady
    THEN /\ sendLog' = "not_ready"
         /\ UNCHANGED <<status, wsRef, readyState, sent, acked, greetingTimer, attempt,
                        statusCalls, transcript, now, lastFrame, muteLog, loop, app, peer, lookup>>
    ELSE LET tr == AddTranscriptMessage(transcript, <<"user", now>>, "user",
                                        Str(TextOf(Trim(u)))) IN
         /\ Len(tr) <= MaxTranscript
         /\ Len(sent[wsRef]) + Len(UiSubmitFrames(u)) <= MaxSent
         /\ transcript' = tr
         /\ sent' = WsSend(sent, wsRef, UiSubmitFrames(u))
         /\ sendLog' = "sent"
         /\ UNCHANGED <<status, wsRef, readyState, acked, greetingTimer, attempt,
                        statusCalls, now, lastFrame, muteLog, loop, app, peer, lookup>>

\* A mute() that tells the remote to drop its input audio.
MuteSendsClear(m) == <<Cmd("input_audio_buffer.clear", NoId, "")>>

\* Frames mute() sends.
MuteSends(m) == <<>>

\* mute(m): console.log('Mute:', m) and nothing else.
Mute(m) ==
    /\ muteLog' = IF m THEN "muted" ELSE "unmuted"
    /\ sent' = IF wsRef # 0 THEN WsSend(sent, wsRef, MuteSends(m)) ELSE sent
    /\ UNCHANGED <<status, wsRef, readyState, acked, greetingTimer, attempt,
                   statusCalls, transcript, sendLog, now, lastFrame, loop, app, peer, lookup>>

\* ---- the tool-call loop -------------------------------------------------------
\* An item of a request body's input or of a response's output.
Item(type, call_id, name, args, output, parts) ==
    [type |-> type, call_id |-> call_id, name |-> name, args |-> args,
     output |-> output, parts |-> parts]

Part(type, text) == [type |-> type, text |-> text]

\* The two messages execute() puts into body.input.
SystemMessage == Item("message", "", "system", "", "", <<>>)
UserMessage == Item("message", "", "user", "", "", <<>>)

ToolNames == {"getOrderStatus", "lookupInfo"}
ArgStrings == {"", "{\"topic\":\"pricing\"}", "{topic"}

\* The call ids the resolving agent hands out: one per tool it calls.
CallIdOf(n) == IF n = "getOrderStatus" THEN "call_1" ELSE "call_2"

FunctionCallItems ==
    {Item("function_call", CallIdOf(n), n, a, "", <<>>) : n \in ToolNames, a \in ArgStrings}

MessageA == Item("message", "", "assistant", "", "",
                 <<Part("output_text", "x"), Part("refusal", "r"), Part("output_text", "y")>>)
MessageB == Item("message", "", "assistant", "", "", <<Part("output_text", "z")>>)

\* An item that is neither a message nor a function call, and a message
\* without any output_text part.
ReasoningItem == Item("reasoning", "", "", "", "", <<>>)
MessageC == Item("message", "", "assistant", "", "", <<Part("refusal", "r")>>)

CallSeqs == UNION {[1..n -> FunctionCallItems] : n \in 1..MaxCalls}

\* The output lists the resolving agent answers with.
\* Two rounds with two calls: both with arguments that parse, and one whose
\* second call has arguments that do not.
TwoCallRounds ==
    {<<Item("function_call", "call_1", "getOrderStatus", "{\"topic\":\"pricing\"}", "", <<>>),
       Item("function_call", "call_2", "lookupInfo", a, "", <<>>)>> : a \in {"", "{topic"}}

Outputs ==
    {<<>>, <<MessageA>>, <<MessageA, MessageB>>}
       \cup CallSeqs
       \cup TwoCallRounds
       \cup {<<ReasoningItem, MessageC, MessageB>>}
       \cup {<<MessageB>> \o c : c \in {d \in CallSeqs : Len(d) = 1}}

\* What fetchResponsesMessage resolves to: the parsed body of an OK reply,
\* or the error marker built for a reply that is not OK.
Completion(err, output) == [error |-> err, output |-> output]
ErrorMarker == Completion(TRUE, <<>>)
Completions == {Completion(FALSE, o) : o \in Outputs} \cup {ErrorMarker}

IsCall(item) == item.type = "function_call"
IsMessage(item) == item.type = "message"
IsOutputText(part) == part.type = "output_text"

FunctionCallsOf(output) == SelectSeq(output, IsCall)

RECURSIVE TextsOf(_)
TextsOf(parts) ==
    IF parts = <<>> THEN <<>>
    ELSE (IF IsOutputText(Head(parts)) THEN <<Head(parts).text>> ELSE <<>>)
            \o TextsOf(Tail(parts))

\* The messages joined with nothing between them.
RECURSIVE JoinNothing(_)
JoinNothing(msgs) ==
    IF msgs = <<>> THEN <<>> ELSE TextsOf(msgs[1].parts) \o JoinNothing(Tail(msgs))

RECURSIVE JoinLines(_)
JoinLines(msgs) ==
    IF msgs = <<>> THEN <<>>
    ELSE IF Len(msgs) = 1 THEN TextsOf(msgs[1].parts)
    ELSE TextsOf(msgs[1].parts) \o <<"\n">> \o JoinLines(Tail(msgs))

\* finalText: the output_text parts of each message joined with nothing, the
\* messages joined with a newline.
FinalTextOf(output) == JoinLines(SelectSeq(output, IsMessage))

\* JSON.parse(toolCall.arguments || '{}') returns instead of throwing.
ArgsParse(a) == (IF a = "" THEN "{}" ELSE a) \in {"{}", "{\"topic\":\"pricing\"}"}

KnownTools == {"getOrderStatus", "lookupFramingInfo", "scheduleAppointment", "getCompanyInfo"}

\* getToolResponse, its results as JSON.stringify writes them (abridged).
GetToolResponse(fName) ==
    CASE fName = "getOrderStatus" -> "{order_found:true}"
      [] fName = "lookupFramingInfo" -> "[{id:FRAME-001}]"
      [] fName = "scheduleAppointment" -> "{appointment_link}"
      [] fName = "getCompanyInfo" -> "{business_name}"
      [] OTHER -> "{result:true}"

\* The two entries body.input.push appends for one call.
CallPairNoId(call) ==
    <<Item("function_call", call.call_id, call.name, call.args, "", <<>>),
      Item("function_call_output", "", "", "", GetToolResponse(call.name), <<>>)>>

CallPair(call) ==
    <<Item("function_call", call.call_id, call.name, call.args, "", <<>>),
      Item("function_call_output", call.call_id, "", "", GetToolResponse(call.name), <<>>)>>

\* The for loop over the function calls of one response: every call before
\* the first one whose arguments do not parse leaves two breadcrumbs (when
\* there is a sink) and a call record and a result in body.input.
Crumb(title, name, data) == [title |-> title, name |-> name, data |-> data]

\* Only the breadcrumb of the result.
BreadcrumbsResultOnly(call) ==
    <<Crumb("function call result", call.name, GetToolResponse(call.name))>>

\* The two addBreadcrumb calls for one function call: the call with its
\* parsed arguments, then the result of getToolResponse.
Breadcrumbs(call) ==
    <<Crumb("function call", call.name, IF call.args = "" THEN "{}" ELSE call.args),
      Crumb("function call result", call.name, GetToolResponse(call.name))>>

RECURSIVE RunCalls(_, _)
RunCalls(calls, acc) ==
    IF calls = <<>> THEN acc
    ELSE IF ~ArgsParse(Head(calls).args) THEN [acc EXCEPT !.threw = TRUE]
    ELSE RunCalls(Tail(calls),
                  [acc EXCEPT
                     !.crumbs = IF acc.sink THEN @ + 2 ELSE @,
                     !.log = IF acc.sink THEN @ \o Breadcrumbs(Head(calls)) ELSE @,
                     !.input = @ \o CallPair(Head(calls))])

LoopOnly == UNCHANGED <<status, wsRef, readyState, sent, acked, greetingTimer, attempt,
                        statusCalls, transcript, sendLog, now, lastFrame, muteLog, app, peer, lookup>>

\* execute() up to its first await: the body is built and submitted.
Execute(sink) ==
    /\ loop.pc = "idle"
    /\ loop' = [loop EXCEPT !.pc = "fetching", !.sink = sink, !.subs = 1,
                            !.input = <<SystemMessage, UserMessage>>]
    /\ LoopOnly

\* fetch() rejects: neither fetchResponsesMessage nor handleToolCalls nor
\* execute() has a try around the await.
FetchRejects ==
    /\ loop.pc = "fetching"
    /\ loop' = [loop EXCEPT !.pc = "threw", !.out = Out("exception", <<>>)]
    /\ LoopOnly

\* The generic failure value.
Failure == Out("error", <<"Something went wrong.">>)

\* The while loop goes round again on this response: it is no error marker,
\* it holds a function call, and every call's arguments parse.  Nothing in
\* the condition counts the rounds.
Resubmits(c) ==
    /\ ~c.error
    /\ FunctionCallsOf(c.output) # <<>>
    /\ \A i \in 1..Len(FunctionCallsOf(c.output)) : ArgsParse(FunctionCallsOf(c.output)[i].args)

\* fetchResponsesMessage resolves and the code runs to its next await or to
\* its return: the error check, the final text, or the calls and a resubmission.
FetchResolves(c) ==
    /\ loop.pc = "fetching"
    /\ LET got == [loop EXCEPT !.responses = Append(@, c)]
           calls == FunctionCallsOf(c.output)
           ran == RunCalls(calls, [sink |-> loop.sink, crumbs |-> loop.crumbs,
                                   log |-> loop.log,
                                   input |-> loop.input, threw |-> FALSE])
       IN IF c.error
          THEN loop' = [got EXCEPT !.pc = "returned", !.out = Failure]
          ELSE IF calls = <<>>
          THEN loop' = [got EXCEPT !.pc = "returned",
                                   !.out = Out("answer", FinalTextOf(c.output))]
          ELSE IF ran.threw
          THEN loop' = [got EXCEPT !.pc = "threw", !.out = Out("exception", <<>>),
                                   !.input = ran.input, !.crumbs = ran.crumbs,
                                   !.log = ran.log]
          ELSE /\ Resubmits(c)
               /\ loop.subs < MaxRounds
               /\ loop' = [got EXCEPT !.pc = "fetching", !.subs = @ + 1,
                                      !.input = ran.input, !.crumbs = ran.crumbs,
                                   !.log = ran.log]
    /\ LoopOnly

NextLoop ==
    \/ \E sink \in BOOLEAN : Execute(sink)
    \/ FetchRejects
    \/ \E c \in Completions : FetchResolves(c)

SpecLoop == Init /\ [][NextLoop]_vars

\* ---- App.tsx and the agents -----------------------------------------------------
AppOnly == UNCHANGED <<status, wsRef, readyState, sent, acked, greetingTimer, attempt,
                       statusCalls, transcript, sendLog, now, lastFrame, muteLog, loop, peer, lookup>>

InSet(key) == {AgentSet(key)[i] : i \in 1..Len(AgentSet(key))}

\* A push that does not look for the name first.
GuardrailAppendAlways(list, g) == Append(list, g)

\* The body of the forEach: push unless a guardrail of that name is there.
GuardrailAppend(list, g) ==
    IF \E i \in 1..Len(list) : list[i].name = g.name THEN list ELSE Append(list, g)

\* The guardrail useEffect, which runs after every render that changed the
\* selected set or the selected agent.
GuardrailEffect ==
    /\ LET key == app.selectedAgentSetKey
           g == Guardrail(CompanyName(key)) IN
       app' = [app EXCEPT
                 !.guardrails = [a \in AgentNames |->
                                   IF a \in InSet(key) /\ a \in WithGuardrailList
                                   THEN GuardrailAppend(app.guardrails[a], g)
                                   ELSE app.guardrails[a]],
                 !.selectedAgentName = IF @ = "" THEN AgentSet(key)[1] ELSE @]
    /\ AppOnly

\* disconnect() of the hook.
Disconnected(a) ==
    [a EXCEPT !.session = FALSE, !.status = "DISCONNECTED", !.currentAgentName = ""]

HandleAgentSetChange(key) ==
    /\ app' = [(IF app.status = "CONNECTED" THEN Disconnected(app) ELSE app) EXCEPT
                 !.selectedAgentSetKey = key,
                 !.selectedAgentName = AgentSet(key)[1]]
    /\ AppOnly

\* connectToRealtime and connect() up to the first await.  One connect() is
\* followed at a time: a second one starts when the first has left its awaits.
AppConnect ==
    /\ app.status = "DISCONNECTED"
    /\ ~app.session
    /\ app.pc = "idle"
    /\ app' = [app EXCEPT
                 !.status = "CONNECTING",
                 !.pc = "awaitKey",
                 !.initialAgent =
                     IF app.selectedAgentName \in InSet(app.selectedAgentSetKey)
                     THEN app.selectedAgentName
                     ELSE AgentSet(app.selectedAgentSetKey)[1]]
    /\ AppOnly

\* The key and the import arrived: new RealtimeSession, sessionRef, the
\* current agent name, and the handlers.
AppSessionCreated ==
    /\ app.pc = "awaitKey"
    /\ app' = [app EXCEPT !.pc = "awaitConnect", !.session = TRUE,
                          !.currentAgentName = app.initialAgent]
    /\ AppOnly

\* session.connect resolved.
AppConnected ==
    /\ app.pc = "awaitConnect"
    /\ app' = [app EXCEPT !.pc = "idle", !.status = "CONNECTED"]
    /\ AppOnly

\* The catch block of connect().
AppConnectFailed ==
    /\ app.pc \in {"awaitKey", "awaitConnect"}
    /\ app' = [app EXCEPT !.pc = "idle", !.status = "DISCONNECTED", !.session = FALSE]
    /\ AppOnly

\* onToggleConnection while CONNECTED or CONNECTING; a connect() that is at
\* an await goes on afterwards.
AppDisconnect ==
    /\ app.status \in {"CONNECTED", "CONNECTING"}
    /\ app' = Disconnected(app)
    /\ AppOnly

\* switchAgent of the hook.  Whether sessionRef.current.switchAgent throws is
\* the library's choice; the hook does not look at the name.
SwitchAgentSessionOnly(a, name, sdkThrows) ==
    IF ~a.session THEN [a EXCEPT !.switchLog = "not_connected"]
    ELSE [a EXCEPT !.sdkSwitchCalls = @ + 1,
                   !.switchLog = "switched",
                   !.currentAgentName = name,
                   !.switchCrumbs = @ + 1,
                   !.handoffCalls = @ + 1,
                   !.selectedAgentName = name]

SwitchAgentResult(a, name, sdkThrows) ==
    IF ~a.session \/ a.status # "CONNECTED"
    THEN [a EXCEPT !.switchLog = "not_connected"]
    ELSE IF sdkThrows
    THEN [a EXCEPT !.sdkSwitchCalls = @ + 1, !.switchLog = "failed"]
    ELSE [a EXCEPT !.sdkSwitchCalls = @ + 1,
                   !.switchLog = "switched",
                   !.currentAgentName = name,
                   !.switchCrumbs = @ + 1,
                   !.handoffCalls = @ + 1,
                   !.selectedAgentName = name]

SwitchAgent(name, sdkThrows) ==
    /\ app.sdkSwitchCalls < MaxSwitches
    /\ app' = SwitchAgentResult(app, name, sdkThrows)
    /\ AppOnly

\* The agent dropdown, which offers the agents of the selected set.
HandleSelectedAgentChange(name, sdkThrows) ==
    /\ name \in InSet(app.selectedAgentSetKey)
    /\ app.sdkSwitchCalls < MaxSwitches
    /\ LET picked == [app EXCEPT !.selectedAgentName = name] IN
       app' = IF app.status = "CONNECTED"
              THEN SwitchAgentResult(picked, name, sdkThrows)
              ELSE picked
    /\ AppOnly

NextApp ==
    \/ GuardrailEffect
    \/ \E key \in AgentSetKeys : HandleAgentSetChange(key)
    \/ AppConnect
    \/ AppSessionCreated
    \/ AppConnected
    \/ AppConnectFailed
    \/ AppDisconnect
    \/ \E name \in AgentNames, sdkThrows \in BOOLEAN : SwitchAgent(name, sdkThrows)
    \/ \E name \in AgentNames, sdkThrows \in BOOLEAN : HandleSelectedAgentChange(name, sdkThrows)

SpecApp == Init /\ [][NextApp]_vars

\* ---- the clock -----------------------------------------------------------------
Tick ==
    /\ now < MaxClock
    /\ now' = now + 1
    /\ UNCHANGED <<status, wsRef, readyState, sent, acked, greetingTimer, attempt,
                   statusCalls, transcript, sendLog,
                   lastFrame, muteLog, loop, app, peer, lookup>>

\* The lifecycle specification stops sending on a socket earlier than MaxSent.
LifecycleQuota(n) == SendReady => Len(sent[wsRef]) + n <= MaxLifecycleSent

Next ==
    \/ Connect
    \/ \E a \in Attempts : KeyResolved(a)
    \/ \E a \in Attempts : KeyFailed(a)
    \/ \E t \in Transports : WsOnOpen(t)
    \/ \E t \in Transports : GreetingFire(t)
    \/ \E t \in Transports, m \in LifecycleMsgs : WsOnMessage(t, m)
    \/ \E t \in Transports : WsFail(t)
    \/ \E t \in Transports : WsOnClose(t)
    \/ Disconnect
    \/ \E text \in Texts : LifecycleQuota(2) /\ SendUserText(text)
    \/ LifecycleQuota(1) /\ Interrupt
    \/ Tick

Spec == Init /\ [][Next]_vars

TypeOK ==
    /\ status \in {"DISCONNECTED", "CONNECTING", "CONNECTED"}
    /\ wsRef \in 0..MaxTransports
    /\ \A t \in Transports : readyState[t] \in {"NONE", "CONNECTING", "OPEN", "CLOSING", "CLOSED"}
    /\ statusCalls \in 0..MaxStatusCalls
    /\ Len(transcript) <= MaxTranscript
    /\ \A t \in Transports : Len(sent[t]) <= MaxSent + 2  \* the greeting is not capped
    /\ \A i \in 1..Len(transcript) : Len(transcript[i].text) <= MaxText
    /\ lastFrame \in {"none", "malformed", "handled", "unhandled"}
    /\ muteLog \in {"none", "muted", "unmuted"}
    /\ loop.pc \in {"idle", "fetching", "returned", "threw"}
    /\ loop.subs \in 0..MaxRounds
    /\ Len(loop.responses) <= loop.subs
    /\ app.status \in {"DISCONNECTED", "CONNECTING", "CONNECTED"}
    /\ app.pc \in {"idle", "awaitKey", "awaitConnect"}
    /\ app.currentAgentName \in AgentNames \cup {""}
    /\ app.selectedAgentName \in AgentNames \cup {""}
    /\ app.selectedAgentSetKey \in AgentSetKeys
    /\ app.switchCrumbs \in 0..MaxSwitches
    /\ app.handoffCalls \in 0..MaxSwitches
    /\ app.sdkSwitchCalls \in 0..MaxSwitches
    /\ app.switchLog \in {"none", "not_connected", "failed", "switched"}
    /\ app.isPTTUserSpeaking \in BOOLEAN
    /\ Len(peer.sent) <= MaxPeerSent + 2
    /\ peer.last \in {"none", "error", "history", "answered", "ignored"}
    /\ lookup.pc \in {"idle", "waiting", "done"}
    /\ lookup.order \in Nat

\* ---- one established session ----------------------------------------------------
\* The state after connect(), a resolved key and the socket's open event;
\* from here the session specification delivers every inbound frame.
InitSession ==
    /\ status = "CONNECTED"
    /\ wsRef = 1
    /\ readyState = [t \in Transports |-> IF t = 1 THEN "OPEN" ELSE "NONE"]
    /\ sent = [t \in Transports |-> IF t = 1 THEN <<SessionConfig>> ELSE <<>>]
    /\ acked = [t \in Transports |-> FALSE]
    /\ greetingTimer = [t \in Transports |-> IF t = 1 THEN "pending" ELSE "none"]
    /\ attempt = [a \in Attempts |->
                    IF a = 1 THEN [pc |-> "created", keyCalls |-> 1, ws |-> 1]
                    ELSE [pc |-> "none", keyCalls |-> 0, ws |-> 0]]
    /\ statusCalls = 2
    /\ transcript = <<>>
    /\ sendLog = "none"
    /\ now = 0
    /\ lastFrame = "none"
    /\ muteLog = "none"
    /\ loop = LoopIdle
    /\ app = AppInit
    /\ peer = PeerIdle
    /\ lookup = LookupIdle

NextSession ==
    \/ \E t \in Transports, m \in InboundMsgs : WsOnMessage(t, m)
    \/ \E text \in Texts : SendUserText(text)
    \/ Interrupt
    \/ \E u \in UiTexts : HandleSendTextMessage(u)
    \/ \E t \in Transports : GreetingFire(t)
    \/ Tick
    \/ Disconnect
    \/ \E t \in Transports : WsFail(t)
    \/ \E t \in Transports : WsOnClose(t)

SpecSession == InitSession /\ [][NextSession]_vars

\* ---- a second session ------------------------------------------------------------
\* The state after connect(), a resolved key, the socket's open event and
\* disconnect(): the first socket is closing and its close event is still to
\* come, the reference is cleared.  statusCalls counts the updateStatus
\* calls made from this state on.
InitReconnect ==
    /\ status = "DISCONNECTED"
    /\ wsRef = 0
    /\ readyState = [t \in Transports |-> IF t = 1 THEN "CLOSING" ELSE "NONE"]
    /\ sent = [t \in Transports |-> IF t = 1 THEN <<SessionConfig>> ELSE <<>>]
    /\ acked = [t \in Transports |-> FALSE]
    /\ greetingTimer = [t \in Transports |-> IF t = 1 THEN "pending" ELSE "none"]
    /\ attempt = [a \in Attempts |->
                    IF a = 1 THEN [pc |-> "created", keyCalls |-> 1, ws |-> 1]
                    ELSE [pc |-> "none", keyCalls |-> 0, ws |-> 0]]
    /\ statusCalls = 0
    /\ transcript = <<>>
    /\ sendLog = "none"
    /\ now = 0
    /\ lastFrame = "none"
    /\ muteLog = "none"
    /\ loop = LoopIdle
    /\ app = AppInit
    /\ peer = PeerIdle
    /\ lookup = LookupIdle

SpecReconnect == InitReconnect /\ [][Next]_vars

\* ---- push to talk ------------------------------------------------------------------
PttOnly == UNCHANGED <<status, wsRef, readyState, acked, greetingTimer, attempt,
                       statusCalls, transcript, sendLog, now, lastFrame, muteLog, loop, peer, lookup>>

\* sendEvent / sendClientEvent: the frame goes out when the referenced socket
\* is open, else a warning and nothing.
SendEventFrames(ev) == IF SendReady THEN <<Cmd(ev, NoId, "")>> ELSE <<>>

\* What handleTalkButtonDown hands to the socket after its status test.
TalkDownFrames == InterruptFrames \o SendEventFrames("input_audio_buffer.clear")

\* What handleTalkButtonUp hands to the socket after its tests.
TalkUpFrames ==
    SendEventFrames("input_audio_buffer.commit") \o SendEventFrames("response.create")

Sends(frames) ==
    IF frames = <<>> THEN sent' = sent
    ELSE /\ Len(sent[wsRef]) + Len(frames) <= MaxSent
         /\ sent' = WsSend(sent, wsRef, frames)

HandleTalkButtonDown ==
    IF status # "CONNECTED" THEN UNCHANGED vars
    ELSE /\ Sends(TalkDownFrames)
         /\ app' = [app EXCEPT !.isPTTUserSpeaking = TRUE]
         /\ PttOnly

HandleTalkButtonUp ==
    IF status # "CONNECTED" \/ ~app.isPTTUserSpeaking THEN UNCHANGED vars
    ELSE /\ Sends(TalkUpFrames)
         /\ app' = [app EXCEPT !.isPTTUserSpeaking = FALSE]
         /\ PttOnly

\* disconnectFromRealtime: disconnect() of the hook and setIsPTTUserSpeaking(false).
DisconnectFromRealtime ==
    /\ statusCalls < MaxStatusCalls
    /\ IF wsRef # 0
       THEN /\ readyState' = WsCloseCall(readyState, wsRef)
            /\ wsRef' = 0
       ELSE UNCHANGED <<readyState, wsRef>>
    /\ status' = "DISCONNECTED"
    /\ statusCalls' = statusCalls + 1
    /\ app' = [app EXCEPT !.isPTTUserSpeaking = FALSE]
    /\ UNCHANGED <<sent, acked, greetingTimer, attempt, transcript, sendLog, now,
                   lastFrame, muteLog, loop, peer, lookup>>

NextPtt ==
    \/ Connect
    \/ \E a \in Attempts : KeyResolved(a)
    \/ \E a \in Attempts : KeyFailed(a)
    \/ \E t \in Transports : WsOnOpen(t)
    \/ \E t \in Transports : GreetingFire(t)
    \/ \E t \in Transports : WsFail(t)
    \/ \E t \in Transports : WsOnClose(t)
    \/ DisconnectFromRealtime
    \/ HandleTalkButtonDown
    \/ HandleTalkButtonUp

SpecPtt == Init /\ [][NextPtt]_vars

\* ---- the peer-connection variant: the data channel ------------------------------
PeerOnly == UNCHANGED <<status, wsRef, readyState, sent, acked, greetingTimer, attempt,
                        statusCalls, transcript, sendLog, now, lastFrame, muteLog,
                        loop, app, lookup>>

PeerFrame(type, itemType, call_id, output) ==
    [type |-> type, itemType |-> itemType, call_id |-> call_id, output |-> output]

\* The tools of sessionConfig.tools.
DeclaredTools == {"getOrderStatus", "scheduleAppointment"}

PeerSessionConfig == PeerFrame("session.update", "", "", "")
PeerResponseCreate == PeerFrame("response.create", "", "", "")
PeerGreeting == PeerFrame("conversation.item.create", "message", "", "hi")

\* dc.onopen: CONNECTED, the session configuration, and the greeting timer.
DcOnOpen ==
    /\ ~peer.open
    /\ peer' = [peer EXCEPT !.open = TRUE, !.status = "CONNECTED",
                            !.sent = Append(@, PeerSessionConfig),
                            !.timer = "pending"]
    /\ PeerOnly

\* The setTimeout of dc.onopen, 1000 ms later.
PeerGreetingFire ==
    /\ peer.timer = "pending"
    /\ peer' = [peer EXCEPT !.timer = "fired",
                            !.sent = @ \o <<PeerGreeting, PeerResponseCreate>>]
    /\ PeerOnly

PeerCallIds == {"call_1", "call_2"}
PeerArgStrings == {"", "{\"customer_name\":\"Sarah\"}", "{customer"}

PeerMsg(type, name, call_id, arguments) ==
    [type |-> type, name |-> name, call_id |-> call_id, arguments |-> arguments]

\* event.data that JSON.parse rejects.
PeerMalformed == PeerMsg("malformed", "", "", "")

FunctionCallDone ==
    {PeerMsg("response.function_call_arguments.done", n, c, a) :
        n \in DeclaredTools \cup {"lookupInfo"}, c \in PeerCallIds, a \in PeerArgStrings}

PeerMsgs ==
    FunctionCallDone
      \cup {PeerMsg(t, "", "", "") :
              t \in {"conversation.item.created", "response.audio_transcript.delta",
                     "response.audio_transcript.done", "session.updated"}}
      \cup {PeerMalformed}

\* JSON.parse(data.arguments || '{}') returns.
PeerArgsParse(a) == (IF a = "" THEN "{}" ELSE a) \in {"{}", "{\"customer_name\":\"Sarah\"}"}

\* mockResult, as JSON.stringify writes it (abridged to the customer name).
MockResult(a) == IF a = "" THEN "Sample Customer" ELSE "Sarah"

\* The frames the function_call_arguments.done case sends: for getOrderStatus
\* with arguments that parse, the output and response.create; else nothing.
ToolAnswer(m) ==
    IF m.name = "getOrderStatus" /\ PeerArgsParse(m.arguments)
    THEN <<PeerFrame("conversation.item.create", "function_call_output", m.call_id,
                     MockResult(m.arguments)),
           PeerResponseCreate>>
    ELSE <<>>

\* What dc.onmessage did with the frame.
PeerOutcome(m) ==
    IF m = PeerMalformed THEN "error"
    ELSE IF m.type \in {"conversation.item.created", "response.audio_transcript.delta",
                        "response.audio_transcript.done"} THEN "history"
    ELSE IF m.type = "response.function_call_arguments.done" /\ m.name = "getOrderStatus"
    THEN (IF PeerArgsParse(m.arguments) THEN "answered" ELSE "error")
    ELSE "ignored"

\* dc.onmessage
DcOnMessage(m) ==
    /\ peer.open
    /\ Len(peer.sent) + Len(ToolAnswer(m)) <= MaxPeerSent
    /\ peer' = [peer EXCEPT !.sent = @ \o ToolAnswer(m), !.last = PeerOutcome(m)]
    /\ PeerOnly

NextPeer ==
    \/ DcOnOpen
    \/ PeerGreetingFire
    \/ \E m \in PeerMsgs : DcOnMessage(m)

SpecPeer == Init /\ [][NextPeer]_vars

\* ---- fetchOrderStatus --------------------------------------------------------------
\* A string is the sequence of its characters; <<>> is '' or undefined.
LookupOnly == UNCHANGED <<status, wsRef, readyState, sent, acked, greetingTimer, attempt,
                          statusCalls, transcript, sendLog, now, lastFrame, muteLog,
                          loop, app, peer>>

UpperCase == <<"A", "B", "C", "D", "E", "F", "G", "H", "I", "J", "K", "L", "M",
               "N", "O", "P", "Q", "R", "S", "T", "U", "V", "W", "X", "Y", "Z">>
LowerCase == <<"a", "b", "c", "d", "e", "f", "g", "h", "i", "j", "k", "l", "m",
               "n", "o", "p", "q", "r", "s", "t", "u", "v", "w", "x", "y", "z">>

LowerChar(c) ==
    IF \E i \in 1..26 : UpperCase[i] = c
    THEN LowerCase[CHOOSE i \in 1..26 : UpperCase[i] = c]
    ELSE c

\* String.prototype.toLowerCase
ToLowerCase(str) == [i \in 1..Len(str) |-> LowerChar(str[i])]

\* String.prototype.includes
Includes(str, sub) ==
    \E k \in 0..(Len(str) - Len(sub)) : SubSeq(str, k + 1, k + Len(sub)) = sub

MockOrders ==
    <<[customer_name |-> <<"S", "a", "r", "a", "h", " ", "J", "o", "h", "n", "s", "o", "n">>,
        order_number |-> <<"J", "F", "-", "2", "0", "2", "4", "-", "0", "0", "1">>,
        status |-> "In Production - Finishing Stage"],
       [customer_name |-> <<"M", "i", "k", "e", " ", "C", "h", "e", "n">>,
        order_number |-> <<"J", "F", "-", "2", "0", "2", "4", "-", "0", "0", "2">>,
        status |-> "Ready for Pickup"],
       [customer_name |-> <<"L", "i", "s", "a", " ", "R", "o", "d", "r", "i", "g", "u", "e", "z">>,
        order_number |-> <<"J", "F", "-", "2", "0", "2", "4", "-", "0", "0", "3">>,
        status |-> "In Queue - Awaiting Materials"],
       [customer_name |-> <<"D", "a", "v", "i", "d", " ", "W", "i", "l", "s", "o", "n">>,
        order_number |-> <<"J", "F", "-", "2", "0", "2", "4", "-", "0", "0", "4">>,
        status |-> "Design Phase - Awaiting Customer Approval"]>>

\* The arguments of the calls.
CustomerNames ==
    {<<>>,
     <<"s", "a", "r", "a", "h">>,
     <<"C", "H", "E", "N">>,
     <<"s", "o", "n">>,
     <<"L", "i", "s", "a", " ", "R">>,
     <<"x", "y", "z">>,
     <<" ">>,
     <<"D", "a", "v", "i", "d", " ", "W", "i", "l", "s", "o", "n">>}

OrderNumbers ==
    {<<>>,
     <<"j", "f", "-", "2", "0", "2", "4", "-", "0", "0", "2">>,
     <<"J", "F", "-", "2", "0", "2", "4", "-", "0", "0", "1">>,
     <<"J", "F", "-", "2", "0", "2", "4", "-", "0", "0", "4">>,
     <<"J", "F", "-", "2", "0", "2", "4", "-", "9">>,
     <<"J", "f", "-", "2", "0", "2", "4", "-", "0", "0", "3">>,
     <<"2", "0", "2", "4">>}

\* Array.prototype.find over the orders whose indices satisfy the test: the
\* first of them, 0 for undefined.
FirstOrder(matching) ==
    IF matching = {} THEN 0 ELSE CHOOSE i \in matching : \A j \in matching : i <= j

ByName(customerName) ==
    {i \in 1..Len(MockOrders) :
        Includes(ToLowerCase(MockOrders[i].customer_name), ToLowerCase(customerName))}

ByNumber(orderNumber) ==
    {i \in 1..Len(MockOrders) :
        ToLowerCase(MockOrders[i].order_number) = ToLowerCase(orderNumber)}

\* A search that uses the order number whenever one is given.
FoundOrderNumberFirst(customerName, orderNumber) ==
    IF orderNumber # <<>> THEN FirstOrder(ByNumber(orderNumber))
    ELSE FirstOrder(ByName(customerName))

\* foundOrder: by customer name when one is given, else by order number.
FoundOrder(customerName, orderNumber) ==
    IF customerName # <<>> THEN FirstOrder(ByName(customerName))
    ELSE IF orderNumber # <<>> THEN FirstOrder(ByNumber(orderNumber))
    ELSE 0

\* fetchOrderStatus up to its await: without any argument it returns at once.
FetchOrderStatus(customerName, orderNumber) ==
    /\ lookup.pc = "idle"
    /\ lookup' = IF customerName = <<>> /\ orderNumber = <<>>
                 THEN [lookup EXCEPT !.pc = "done", !.found = FALSE, !.error = "provide"]
                 ELSE [lookup EXCEPT !.pc = "waiting", !.customerName = customerName,
                                     !.orderNumber = orderNumber]
    /\ LookupOnly

\* The simulated delay is over: the search and the return.
DelayElapsed ==
    /\ lookup.pc = "waiting"
    /\ LET i == FoundOrder(lookup.customerName, lookup.orderNumber) IN
       lookup' = [lookup EXCEPT !.pc = "done", !.order = i, !.found = (i # 0),
                                !.error = IF i # 0 THEN "none" ELSE "not_found"]
    /\ LookupOnly

NextLookup ==
    \/ \E c \in CustomerNames, o \in OrderNumbers : FetchOrderStatus(c, o)
    \/ DelayElapsed

SpecLookup == Init /\ [][NextLookup]_vars

\* ---- the lifecycle with mute() calls --------------------------------------------
\* connect, the key, the socket's events and disconnect, with mute(true) and
\* mute(false) called in any state between them.
NextMute ==
    \/ Connect
    \/ \E a \in Attempts : KeyResolved(a)
    \/ \E a \in Attempts : KeyFailed(a)
    \/ \E t \in Transports : WsOnOpen(t)
    \/ \E t \in Transports : WsFail(t)
    \/ \E t \in Transports : WsOnClose(t)
    \/ Disconnect
    \/ \E m \in BOOLEAN : Mute(m)

SpecMute == Init /\ [][NextMute]_vars

\* ---- properties -----------------------------------------------------------------
Live(t) == readyState[t] \in {"CONNECTING", "OPEN"}

\* C1 (as claimed): a connect() issued while status is CONNECTING is a no-op:
\* no provider call, no status change signal, no transport.
C1_SecondConnectIsNoOp ==
    [][(status = "CONNECTING" /\ Connect) => UNCHANGED vars]_vars

\* C2 (as claimed): every transport that is connecting or open is the one the
\* manager references, so at most one such transport exists.
C2_AtMostOneLiveTransport ==
    \A t \in Transports : Live(t) => wsRef = t

AllowedTransitions ==
    { <<"DISCONNECTED", "CONNECTING">>, <<"CONNECTING", "CONNECTED">>,
      <<"CONNECTING", "DISCONNECTED">>, <<"CONNECTED", "DISCONNECTED">> }

\* C3 (as claimed): every change of status is one of the four listed
\* transitions; in particular never DISCONNECTED -> CONNECTED.
C3_OnlyListedTransitions ==
    [][status' # status => <<status, status'>> \in AllowedTransitions]_vars

C5_FailureNotifiedOnce ==
    [][\A t \in Transports :
         (wsRef = t /\ readyState[t] = "OPEN" /\ WsFail(t)) =>
            /\ status' = "DISCONNECTED"
            /\ wsRef' = 0
            /\ statusCalls' = statusCalls + 1]_vars

\* C6 (as claimed): disconnect() while status is DISCONNECTED changes nothing
\* and invokes no status-change callback.
C6_DisconnectIdempotent ==
    [][(status = "DISCONNECTED" /\ Disconnect) =>
         UNCHANGED <<status, wsRef, readyState, statusCalls>>]_vars

\* C7 (as claimed): when disconnect() returns, no transport the manager
\* created is still connecting or open.
C7_DisconnectClosesEveryTransport ==
    [][Disconnect => \A t \in Transports : ~Live(t)']_vars

\* C8: an attempt whose credential provider failed ends with status
\* DISCONNECTED, never owns a transport, and called the provider once.
C8_KeyFailureEndsAttempt ==
    [][\A a \in Attempts :
         attempt'[a].pc = "failed" =>
            /\ attempt'[a].ws = 0
            /\ attempt'[a].keyCalls = 1
            /\ (attempt[a].pc # "failed" =>
                  status' = "DISCONNECTED" /\ Created' = Created)]_vars

C8_Witness ==
    \E a \in Attempts : attempt[a].pc = "failed" /\ status = "DISCONNECTED"

\* C9: sendUserText while status is not CONNECTED sends nothing, leaves the
\* transcript alone and ends in the logged early return.
C9_SendWhileNotConnectedIsNoOp ==
    [][\A text \in Texts :
         (status # "CONNECTED" /\ SendUserText(text)) =>
            /\ UNCHANGED <<transcript, sent>>
            /\ sendLog' = "not_ready"]_vars

C9_Witness ==
    /\ sendLog = "not_ready"
    /\ status = "CONNECTING"
    /\ wsRef # 0 /\ readyState[wsRef] = "CONNECTING"

\* C10 (as claimed): sendUserText("") adds no transcript item and sends no
\* command, in every state.
C10_EmptyTextIsNoOp ==
    [][SendUserText("") => UNCHANGED <<transcript, sent>>]_vars

\* ---------------------------------------------------------------- session

CreateIds(t) ==
    {sent[t][i].id : i \in {j \in 1..Len(sent[t]) : sent[t][j].type = "conversation.item.create"}}

CreateCount(t) ==
    Cardinality({j \in 1..Len(sent[t]) : sent[t][j].type = "conversation.item.create"})

DeltaMsgs == {m \in InboundMsgs : m # Malformed /\ m.type = "response.audio_transcript.delta"}
DoneMsgs == {m \in InboundMsgs : m # Malformed /\ m.type = "response.audio_transcript.done"}
CreatedMsgs == {m \in InboundMsgs : m # Malformed /\ m.type = "conversation.item.created"}
DroppedMsgs == {m \in InboundMsgs : m = Malformed \/ m.type \notin HandledTypes}

IsDone(tr, id) == HasItem(tr, id) /\ ItemOf(tr, id).status = "DONE"

\* C11: a sendUserText call that finds the open socket appends to what that
\* socket was sent exactly an item-create command carrying the text and then a
\* response.create, nothing between them and nothing on any other socket, and
\* the id in the create command is the id of a user item of the transcript.
C11_SendsCreateThenResponse ==
    [][\A text \in Texts :
         (SendReady /\ SendUserText(text)) =>
            /\ Len(sent'[wsRef]) = Len(sent[wsRef]) + 2
            /\ SubSeq(sent'[wsRef], 1, Len(sent[wsRef])) = sent[wsRef]
            /\ LET c == sent'[wsRef][Len(sent[wsRef]) + 1]
                   r == sent'[wsRef][Len(sent[wsRef]) + 2]
               IN /\ c.type = "conversation.item.create"
                  /\ c.text = text
                  /\ r.type = "response.create"
                  /\ HasItem(transcript', c.id)
                  /\ ItemOf(transcript', c.id).role = "user"
                  /\ Len(transcript') > Len(transcript) =>
                        transcript'[Len(transcript')].id = c.id
            /\ \A t \in Transports \ {wsRef} : sent'[t] = sent[t]]_vars

C11_Witness ==
    /\ sendLog = "sent"
    /\ wsRef # 0
    /\ Len(sent[wsRef]) >= 3
    /\ sent[wsRef][Len(sent[wsRef])].type = "response.create"
    /\ sent[wsRef][Len(sent[wsRef]) - 1].type = "conversation.item.create"
    /\ HasItem(transcript, sent[wsRef][Len(sent[wsRef]) - 1].id)

\* C12: the item-create commands sent on one socket carry pairwise distinct
\* ids: there are as many ids as there are create commands.
C12_CreateIdsUnique ==
    \A t \in Transports : Cardinality(CreateIds(t)) = CreateCount(t)

\* C13: in every state whose status is CONNECTED, interrupt() sends exactly
\* one response.cancel command.
C13_InterruptWhileConnectedSendsCancel ==
    status = "CONNECTED" => InterruptFrames = <<Cmd("response.cancel", NoId, "")>>

\* C14: mute(true) and mute(false) change neither the status nor the socket
\* reference nor the state of any socket, and send no frame, in every state.
C14_MuteSendsNothing ==
    [][\A m \in BOOLEAN :
         Mute(m) => UNCHANGED <<status, wsRef, readyState, sent, transcript>>]_vars

C14_Witness ==
    /\ muteLog = "muted"
    /\ status = "CONNECTED"
    /\ SendReady

C14_WitnessConnecting ==
    /\ muteLog = "unmuted"
    /\ status = "CONNECTING"

C15_WitnessPlaceholder ==
    /\ lastFrame = "handled"
    /\ IsDone(transcript, <<"item", 1>>)
    /\ ItemOf(transcript, <<"item", 1>>).text = <<"[Audio response completed]">>


C17_DuplicateCreatedIsNoOp ==
    [][\A t \in Transports, m \in CreatedMsgs :
         (WsOnMessage(t, m) /\ HasItem(transcript, m.id)) =>
            transcript' = transcript]_vars

C17_Witness ==
    /\ lastFrame = "handled"
    /\ HasItem(transcript, <<"item", 1>>)
    /\ ItemOf(transcript, <<"item", 1>>).status = "IN_PROGRESS"
    /\ ItemOf(transcript, <<"item", 1>>).text = <<"a", "a">>

\* C18: an item whose status is DONE keeps its place, its text and its
\* status in every later step, whatever event arrives.
C18_DoneItemsNeverChange ==
    [][\A i \in 1..Len(transcript) :
          transcript[i].status = "DONE" =>
             /\ i <= Len(transcript')
             /\ transcript'[i] = transcript[i]]_vars

C18_Witness ==
    /\ lastFrame = "malformed"
    /\ IsDone(transcript, <<"item", 1>>)
    /\ ItemOf(transcript, <<"item", 1>>).text = <<"b">>

\* C19: a frame that does not parse, and a frame whose type is not one the
\* handler has a case for, change neither the status, the socket reference,
\* the state of any socket, the transcript nor anything sent; the socket stays
\* open, so the frames after it are still handled.
C19_BadFramesDropped ==
    [][\A t \in Transports, m \in DroppedMsgs :
         WsOnMessage(t, m) =>
            /\ UNCHANGED <<status, wsRef, readyState, transcript, sent>>
            /\ readyState'[t] = "OPEN"]_vars

C19_WitnessMalformed ==
    /\ lastFrame = "malformed"
    /\ status = "CONNECTED"
    /\ SendReady

C19_WitnessUnhandled ==
    /\ lastFrame = "unhandled"
    /\ status = "CONNECTED"
    /\ SendReady


\* ---------------------------------------------------------------- tool-call loop

LoopOver == loop.pc \in {"returned", "threw"}

\* Every submission of the run was answered, and by an output list.
AllAnswered ==
    /\ loop.subs = Len(loop.responses)
    /\ \A i \in 1..Len(loop.responses) : ~loop.responses[i].error

\* C20: a run in which every submission was answered by an output list is
\* over only at the first response without a function call: the k responses
\* before the last each held a call, the last held none, so that k+1
\* submissions were made, and the run returned the text of the last response.
C20_RoundsAndAnswer ==
    (LoopOver /\ AllAnswered) =>
        /\ \A i \in 1..(Len(loop.responses) - 1) :
              FunctionCallsOf(loop.responses[i].output) # <<>>
        /\ FunctionCallsOf(loop.responses[Len(loop.responses)].output) = <<>>
        /\ loop.out = Out("answer", FinalTextOf(loop.responses[Len(loop.responses)].output))


\* C21: the loop stops within a fixed number of rounds: once the run has made
\* MaxRounds submissions there is no response on which it goes round again.
C21_LoopStopsWithinBound ==
    (loop.pc = "fetching" /\ loop.subs = MaxRounds) =>
        \A c \in Completions : ~Resubmits(c)

\* A submission of the run failed: the last one was answered by the error
\* marker, or it was not answered at all because the request was rejected.
SubmissionFailed ==
    \/ loop.subs > Len(loop.responses)
    \/ /\ loop.responses # <<>>
       /\ loop.responses[Len(loop.responses)].error

\* C22: a run one of whose submissions failed, by an error marker or by a
\* rejected request, has returned the generic failure value, and the failed
\* submission was its last one.
C22_FailedSubmissionReturnsFailure ==
    /\ \A i \in 1..(Len(loop.responses) - 1) : ~loop.responses[i].error
    /\ (LoopOver /\ SubmissionFailed) =>
          /\ loop.pc = "returned"
          /\ loop.out = Out("error", <<"Something went wrong.">>)

\* C23: a response all of whose function calls name a tool outside the
\* resolver's mapping never ends the run: every call gets the placeholder
\* result {result:true} and the loop resubmits.
C23_UnknownToolContinues ==
    [][\A c \in Completions :
         LET calls == FunctionCallsOf(c.output) IN
         (/\ FetchResolves(c)
          /\ ~c.error
          /\ calls # <<>>
          /\ \A i \in 1..Len(calls) : calls[i].name \notin KnownTools) =>
            /\ loop'.pc = "fetching"
            /\ loop'.subs = loop.subs + 1
            /\ loop'.out = NoOut
            /\ Len(loop'.input) = Len(loop.input) + 2 * Len(calls)
            /\ \A j \in 1..Len(calls) :
                  loop'.input[Len(loop.input) + 2 * j].output = "{result:true}"]_vars

\* The last response of the run holds a call whose arguments do not parse.
LastCallThrows ==
    /\ loop.responses # <<>>
    /\ loop.subs = Len(loop.responses)
    /\ LET calls == FunctionCallsOf(loop.responses[Len(loop.responses)].output) IN
         \E i \in 1..Len(calls) : ~ArgsParse(calls[i].args)

\* C24: a run that ended on a call whose execution threw has returned the
\* generic failure value; no exception left getNextResponseFromSupervisor.
C24_ThrowBecomesFailure ==
    (LoopOver /\ LastCallThrows) =>
        /\ loop.pc = "returned"
        /\ loop.out = Out("error", <<"Something went wrong.">>)


\* The entries a step appended to the running context.
Appended == SubSeq(loop'.input, Len(loop.input) + 1, Len(loop'.input))

\* C30: the running context only grows: every step keeps the entries it
\* found; what the step that receives a response appends is, for the calls of that
\* response in their order, a function_call record and right after it a
\* function_call_output with the same call_id; and a step that resubmits has
\* appended the pair of every call of the response.
C30_ContextAppendOnly ==
    [][/\ Len(loop'.input) >= Len(loop.input)
       /\ SubSeq(loop'.input, 1, Len(loop.input)) = loop.input
       /\ Len(loop'.responses) = Len(loop.responses) + 1 =>
            LET calls == FunctionCallsOf(loop'.responses[Len(loop'.responses)].output) IN
               /\ Len(Appended) % 2 = 0
               /\ Len(Appended) <= 2 * Len(calls)
               /\ \A j \in 1..(Len(Appended) \div 2) :
                     /\ Appended[2 * j - 1].type = "function_call"
                     /\ Appended[2 * j - 1].call_id = calls[j].call_id
                     /\ Appended[2 * j - 1].name = calls[j].name
                     /\ Appended[2 * j - 1].args = calls[j].args
                     /\ Appended[2 * j].type = "function_call_output"
                     /\ Appended[2 * j].call_id = calls[j].call_id
               /\ loop'.subs = loop.subs + 1 => Len(Appended) = 2 * Len(calls)]_vars

\* Two rounds with calls, the first of them with two calls, then an answer.
C30_Witness ==
    /\ loop.pc = "returned"
    /\ loop.out.kind = "answer"
    /\ loop.subs = 3
    /\ Len(loop.input) = 8
    /\ loop.input[3].call_id = "call_1"
    /\ loop.input[5].call_id = "call_2"
    /\ loop.input[6].call_id = "call_2"

\* A round that threw at its second call: the pair of the first is appended.
C30_WitnessThrew ==
    /\ loop.pc = "threw"
    /\ loop.subs = 1
    /\ Len(loop.input) = 4


\* ---------------------------------------------------------------- agents

\* C25: switchAgent with a name the current agent cannot hand off to is
\* rejected: the current agent name stays, no handoff callback fires and no
\* 'Switched to agent' breadcrumb is added.
C25_UnreachableSwitchRejected ==
    [][\A name \in AgentNames, sdkThrows \in BOOLEAN :
         (SwitchAgent(name, sdkThrows) /\ name \notin HandoffTargets(app.currentAgentName)) =>
            /\ app'.currentAgentName = app.currentAgentName
            /\ app'.handoffCalls = app.handoffCalls
            /\ app'.switchCrumbs = app.switchCrumbs]_vars

NoDuplicateNames(list) ==
    \A i, j \in 1..Len(list) : list[i].name = list[j].name => i = j

\* C26: no step leaves an agent with two guardrails of one name, and a list
\* that holds a guardrail of the name the setup step adds is left as it is.
C26_GuardrailsUniqueByName ==
    [][\A a \in AgentNames :
         /\ NoDuplicateNames(app'.guardrails[a])
         /\ (\E i \in 1..Len(app.guardrails[a]) :
                app.guardrails[a][i].name = Guardrail("").name) =>
               app'.guardrails[a] = app.guardrails[a]]_vars

\* Both sets were selected and set up; chatAgent kept the guardrail of the
\* first run over its set.
C26_Witness ==
    /\ Len(app.guardrails["greeter"]) = 1
    /\ Len(app.guardrails["chatAgent"]) = 1
    /\ app.selectedAgentSetKey = "simpleHandoff"
    /\ app.selectedAgentName = "haiku"


\* ---------------------------------------------------------------- opening

\* C27: on every transport the first command sent is session.update.
C27_FirstCommandIsSessionUpdate ==
    \A t \in Transports : sent[t] # <<>> => sent[t][1].type = "session.update"

\* A transport carried the configuration, then user text, then the greeting.
C27_Witness ==
    \E t \in Transports :
        /\ Len(sent[t]) >= 5
        /\ sent[t][2].type = "conversation.item.create"
        /\ sent[t][2].text # "hi"
        /\ sent[t][Len(sent[t])].type = "response.create"
        /\ greetingTimer[t] = "fired"

GreetingFrames == <<ItemCreate(<<"greeting", now>>, "hi"), ResponseCreate>>

\* C28 (as claimed): when the greeting delay of a transport elapses, the
\* greeting goes out on it, once, if the session is still CONNECTED on that
\* transport, and nothing is sent if the status is no longer CONNECTED.
C28_GreetingOnlyWhileConnected ==
    [][\A t \in Transports :
         GreetingFire(t) =>
            /\ status # "CONNECTED" => sent' = sent
            /\ (status = "CONNECTED" /\ wsRef = t /\ readyState[t] = "OPEN") =>
                  sent' = [sent EXCEPT ![t] = @ \o GreetingFrames]]_vars


\* C29 (as claimed): in every state whose status is CONNECTED, a submit of
\* non-blank text sends response.cancel, conversation.item.create and
\* response.create in that order, and a submit of blank text sends nothing.
C29_UiSubmitCancelsThenSends ==
    status = "CONNECTED" =>
        \A u \in UiTexts :
            UiSubmitFrames(u) =
                IF Trim(u) = <<>> THEN <<>>
                ELSE <<Cmd("response.cancel", NoId, ""),
                       ItemCreate(<<"user", now>>, "hello"),
                       ResponseCreate>>


\* ---------------------------------------------------------------- final answer

LastResponse == loop.responses[Len(loop.responses)]

Answered == loop.pc = "returned" /\ loop.out.kind = "answer"

\* The output_text segments of all message items of an output list, in order.
RECURSIVE SegmentsOf(_)
SegmentsOf(output) ==
    IF output = <<>> THEN <<>>
    ELSE (IF Head(output).type = "message"
          THEN SelectSeq(Head(output).parts, LAMBDA p : p.type = "output_text")
          ELSE <<>>) \o SegmentsOf(Tail(output))

SegmentTexts(output) == [i \in 1..Len(SegmentsOf(output)) |-> SegmentsOf(output)[i].text]

\* C31 (as claimed): the final answer is the segments of the answering
\* response, in order, with nothing between them.
C31_AnswerIsPlainConcatenation ==
    Answered => loop.out.text = SegmentTexts(LastResponse.output)

MessagesOf(output) == SelectSeq(output, LAMBDA it : it.type = "message")

\* The answer built message by message from the left: a newline before every
\* message but the first, then that message's segments.
RECURSIVE AnswerUpTo(_, _)
AnswerUpTo(msgs, k) ==
    IF k = 0 THEN <<>>
    ELSE AnswerUpTo(msgs, k - 1)
            \o (IF k > 1 THEN <<"\n">> ELSE <<>>)
            \o SegmentTexts(<<msgs[k]>>)

\* C31 (amended): the final answer holds the segments of each message item
\* with nothing between them, and one newline between successive message
\* items; other parts and other items contribute nothing.
C31_AnswerJoinsMessagesWithNewline ==
    Answered =>
        /\ FunctionCallsOf(LastResponse.output) = <<>>
        /\ loop.out.text = AnswerUpTo(MessagesOf(LastResponse.output),
                                      Len(MessagesOf(LastResponse.output)))
        /\ SelectSeq(loop.out.text, LAMBDA x : x # "\n") = SegmentTexts(LastResponse.output)

\* An answer from a reasoning item, a message without text and a message
\* with text.
C31_Witness ==
    /\ Answered
    /\ LastResponse.output = <<ReasoningItem, MessageC, MessageB>>
    /\ loop.out.text = <<"\n", "z">>

C31_WitnessTwoSegments ==
    /\ Answered
    /\ LastResponse.output = <<MessageA, MessageB>>
    /\ loop.out.text = <<"x", "y", "\n", "z">>


\* ---------------------------------------------------------------- breadcrumbs

\* The calls the loop has executed so far, in order: the call records in
\* body.input.
ExecutedCalls == SelectSeq(loop.input, LAMBDA it : it.type = "function_call")

\* C32: with a sink, the n calls executed so far left 2n breadcrumbs, for
\* each call in order its call breadcrumb with the arguments and then its
\* result breadcrumb; without a sink there is no breadcrumb, and every round
\* ends as it would have ended with the sink the other way round.
C32_TwoBreadcrumbsPerCall ==
    [][/\ IF loop'.sink
          THEN /\ Len(loop'.log) = 2 * Len(ExecutedCalls')
               /\ \A k \in 1..Len(ExecutedCalls') :
                     /\ loop'.log[2 * k - 1].title = "function call"
                     /\ loop'.log[2 * k - 1].name = ExecutedCalls'[k].name
                     /\ loop'.log[2 * k - 1].data =
                           (IF ExecutedCalls'[k].args = "" THEN "{}" ELSE ExecutedCalls'[k].args)
                     /\ loop'.log[2 * k].title = "function call result"
                     /\ loop'.log[2 * k].name = ExecutedCalls'[k].name
                     /\ loop'.log[2 * k].data = loop'.input[2 + 2 * k].output
          ELSE loop'.log = <<>>
       /\ Len(loop'.responses) = Len(loop.responses) + 1 =>
             LET c == loop'.responses[Len(loop'.responses)]
                 other == RunCalls(FunctionCallsOf(c.output),
                                   [sink |-> ~loop.sink, crumbs |-> 0, log |-> <<>>,
                                    input |-> loop.input, threw |-> FALSE])
             IN (~c.error /\ FunctionCallsOf(c.output) # <<>>) =>
                   /\ loop'.input = other.input
                   /\ (loop'.pc = "threw") = other.threw]_vars

\* Three executed calls in two rounds with a sink: six breadcrumbs.
C32_Witness ==
    /\ loop.sink
    /\ Len(ExecutedCalls) = 3
    /\ Len(loop.log) = 6
    /\ loop.log[3].name = "lookupInfo"
    /\ loop.pc = "returned"

\* The same without a sink.
C32_WitnessNoSink ==
    /\ ~loop.sink
    /\ Len(ExecutedCalls) = 3
    /\ loop.log = <<>>
    /\ loop.pc = "returned"


\* ---------------------------------------------------------------- switching

\* C33: a switchAgent call made while the status is not CONNECTED changes
\* neither the current agent name nor the selected one, does not call the
\* session, and produces neither the breadcrumb nor the handoff callback.
C33_SwitchWhileNotConnectedRejected ==
    [][\A name \in AgentNames, sdkThrows \in BOOLEAN :
         (SwitchAgent(name, sdkThrows) /\ app.status # "CONNECTED") =>
            /\ app'.currentAgentName = app.currentAgentName
            /\ app'.selectedAgentName = app.selectedAgentName
            /\ app'.sdkSwitchCalls = app.sdkSwitchCalls
            /\ app'.switchCrumbs = app.switchCrumbs
            /\ app'.handoffCalls = app.handoffCalls
            /\ app'.switchLog = "not_connected"]_vars

\* A call was turned down while a session object existed and the status was
\* still CONNECTING.
C33_Witness ==
    /\ app.switchLog = "not_connected"
    /\ app.session
    /\ app.status = "CONNECTING"
    /\ app.sdkSwitchCalls = 0


\* ---------------------------------------------------------------- superseded transports

\* C34 (as claimed): once a new connect() has begun, an error or close event
\* of a transport that is not the referenced one changes neither the status
\* nor the reference.
C34_SupersededEventsIgnored ==
    [][\A t \in Transports :
         ((WsOnClose(t) \/ WsFail(t)) /\ t # wsRef /\ status # "DISCONNECTED") =>
            /\ status' = status
            /\ wsRef' = wsRef]_vars


\* ---------------------------------------------------------------- status and reference

\* C35 (as claimed): while the status is CONNECTED the referenced socket
\* exists and is open, and while it is DISCONNECTED no socket is referenced.
C35_StatusMatchesReference ==
    /\ status = "CONNECTED" => (wsRef # 0 /\ readyState[wsRef] = "OPEN")
    /\ status = "DISCONNECTED" => wsRef = 0

\* C36 (as claimed): a key that resolves while the status is DISCONNECTED,
\* no connect() having been called since, creates no socket and sets no
\* reference.
C36_DisconnectCancelsPendingConnect ==
    [][\A a \in Attempts :
         (KeyResolved(a) /\ status = "DISCONNECTED") =>
            /\ readyState' = readyState
            /\ wsRef' = wsRef]_vars


\* ---------------------------------------------------------------- push to talk

IsCommit(f) == f.type = "input_audio_buffer.commit"

\* Index of the last commit in a frame sequence, 0 when there is none.
LastCommit(s) ==
    IF \E i \in 1..Len(s) : IsCommit(s[i])
    THEN CHOOSE i \in 1..Len(s) : IsCommit(s[i]) /\ \A j \in (i + 1)..Len(s) : ~IsCommit(s[j])
    ELSE 0

\* After the last commit the sequence holds response.cancel directly
\* followed by input_audio_buffer.clear.
DownSinceLastCommit(s) ==
    \E i \in (LastCommit(s) + 1)..(Len(s) - 1) :
        /\ s[i].type = "response.cancel"
        /\ s[i + 1].type = "input_audio_buffer.clear"

\* C37 (as claimed): a step that sends a commit on a transport sends the
\* commit and then response.create and nothing else, and the frames sent on
\* that transport since its previous commit hold the response.cancel and
\* input_audio_buffer.clear of a button-down; a button-up while not CONNECTED
\* or without a button-down sends nothing.
C37_PushToTalkOrdering ==
    [][/\ \A t \in Transports :
             LET new == SubSeq(sent'[t], Len(sent[t]) + 1, Len(sent'[t])) IN
             (\E i \in 1..Len(new) : IsCommit(new[i])) =>
                 /\ new = <<Cmd("input_audio_buffer.commit", NoId, ""), ResponseCreate>>
                 /\ DownSinceLastCommit(sent[t])
       /\ (HandleTalkButtonUp /\ (status # "CONNECTED" \/ ~app.isPTTUserSpeaking)) =>
             sent' = sent]_vars


\* ---------------------------------------------------------------- agent set change

\* C38 (as claimed): when the user has changed the agent set to another one,
\* the status is DISCONNECTED and no session object is left, whatever the
\* status was.
C38_SetChangeEndsSession ==
    [][\A key \in AgentSetKeys :
         (HandleAgentSetChange(key) /\ key # app.selectedAgentSetKey) =>
            /\ app'.status = "DISCONNECTED"
            /\ ~app'.session]_vars


\* ---------------------------------------------------------------- declared tools

\* C39 (as claimed): the handling of a function_call_arguments.done event for
\* a declared tool sends exactly a function_call_output item with the
\* event's call_id and then response.create.
C39_DeclaredToolCallsAnswered ==
    [][\A m \in FunctionCallDone :
         (DcOnMessage(m) /\ m.name \in DeclaredTools) =>
            /\ Len(peer'.sent) = Len(peer.sent) + 2
            /\ peer'.sent[Len(peer.sent) + 1].type = "conversation.item.create"
            /\ peer'.sent[Len(peer.sent) + 1].itemType = "function_call_output"
            /\ peer'.sent[Len(peer.sent) + 1].call_id = m.call_id
            /\ peer'.sent[Len(peer.sent) + 2].type = "response.create"]_vars


\* ---------------------------------------------------------------- order lookup

\* The customer name of order i holds name at some offset, letters compared
\* without regard to case.
NameMatches(i, name) ==
    \E k \in 0..(Len(MockOrders[i].customer_name) - Len(name)) :
        \A j \in 1..Len(name) :
            LowerChar(MockOrders[i].customer_name[k + j]) = LowerChar(name[j])

\* The order number of order i is number, letters compared without regard
\* to case.
NumberMatches(i, number) ==
    /\ Len(MockOrders[i].order_number) = Len(number)
    /\ \A j \in 1..Len(number) :
          LowerChar(MockOrders[i].order_number[j]) = LowerChar(number[j])

\* C40: a call never ends in an exception, and when it has returned,
\* order_found is true exactly when an order matches: by customer name alone
\* when one was given, else by order number; the order returned is the first
\* that matches; without any argument order_found is false with the error
\* that asks for an argument.
C40_OrderFoundIffMatch ==
    /\ lookup.pc \in {"idle", "waiting", "done"}
    /\ lookup.pc = "done" =>
          LET c == lookup.customerName
              o == lookup.orderNumber
              Matches(i) == IF c # <<>> THEN NameMatches(i, c)
                            ELSE o # <<>> /\ NumberMatches(i, o)
          IN /\ lookup.found = (\E i \in 1..Len(MockOrders) : Matches(i))
             /\ lookup.found =>
                   /\ Matches(lookup.order)
                   /\ \A j \in 1..(lookup.order - 1) : ~Matches(j)
                   /\ lookup.error = "none"
             /\ ~lookup.found => lookup.error \in {"provide", "not_found"}
             /\ (c = <<>> /\ o = <<>>) => (~lookup.found /\ lookup.error = "provide")

\* A name that matches no order with the number of an order: not found.
C40_Witness ==
    /\ lookup.pc = "done"
    /\ lookup.customerName = <<"x", "y", "z">>
    /\ NumberMatches(1, lookup.orderNumber)
    /\ ~lookup.found

\* A name in other case that occurs in two orders: the first is returned.
C40_WitnessFirstOfTwo ==
    /\ lookup.pc = "done"
    /\ lookup.customerName = <<"s", "o", "n">>
    /\ lookup.found
    /\ lookup.order = 1
    /\ NameMatches(4, lookup.customerName)

\* No name and an order number in other case.
C40_WitnessByNumber ==
    /\ lookup.pc = "done"
    /\ lookup.customerName = <<>>
    /\ lookup.found
    /\ lookup.order = 2

====
